---------------------------- MODULE Spec2Model ----------------------------
(***************************************************************************)
(* Task lifecycle and process supervision of the JMeter toolkit.           *)
(*                                                                         *)
(* The parts of the source are modelled each with its own                   *)
(* specification over its own variables:                                   *)
(*                                                                         *)
(*   Spec      the database-backed manager (core/jmeter.py) with its       *)
(*             Celery worker job (utils/tasks.py): execute_jmx_async,      *)
(*             execute_jmeter_task, cancel_task.                           *)
(*   SpecStop  the cache-backed manager (core/task.py, core/cache.py):     *)
(*             DictCache, TaskManger.stop_task_by_file_name, stop_all,     *)
(*             execute_jmx, over a table of operating-system processes.    *)
(*   SpecDev   the development server (dev_server.py): execute_jmx, the    *)
(*             background run execute_jmeter_background, the automatic     *)
(*             report auto_generate_report, generate_html_report.          *)
(*   SpecExec  the file records of the database-backed manager:            *)
(*             upload_jmx and the lookup execute_jmx_async makes in them.  *)
(*   SpecCache DictCache (core/cache.py) used by a client: get, set,       *)
(*             remove, get_all_tasks.                                      *)
(*   SpecLive  either program with its continuations scheduled fairly.     *)
(*   SpecPath  the development server's execute_jmx with file names that  *)
(*             lead out of its upload directory.                           *)
(*   SpecNames the development server's execute_jmx with its clock: the    *)
(*             names of the output files.                                  *)
(*   SpecCombined  upload_and_execute of the development server.           *)
(*   SpecSingleton the decorator singleton on TaskManger (core/task.py).   *)
(***************************************************************************)
EXTENDS Integers, Sequences, FiniteSets, TLC

VARIABLES
    tasks,       \* the tasks table: task id -> committed row, or NoTask
    api_pc,      \* position of the execute_jmx_async call that created the task
    jobs,        \* position of the worker job execute_jmeter_task of the task
    proc,        \* the external JMeter process launched by the job of the task
    revoked,     \* job ids for which celery_app.control.revoke was issued
    cancel_pc,   \* position of a cancel_task call on the task
    cancel_ok,   \* task ids for which cancel_task has returned "cancelled"
    last,        \* the operation performed last and its outcome
    cache,       \* DictCache._cache: key -> pid
    os_procs,    \* operating-system process table: pid -> process, or NoProc
    sigterm,     \* pids to which the last operation delivered SIGTERM
    stop_all_pc, \* stop_all call in progress: keys left to stop, outcomes so far
    tasks_db,    \* dev_server.tasks_db: task id -> task dictionary, or NoTask
    bg,          \* position of the coroutine execute_jmeter_background of the task
    dev_proc,    \* the JMeter process started by that coroutine
    jmx_files,   \* names of the files in the directory jmx_files/
    file_records,\* the file_records table: the committed FileRecord rows
    jmx_disk,    \* stored names of the files in settings.jmx_files_path
    request,     \* the file_name of the execute request served last
    held,        \* what a caller of get_all_tasks / list_tasks holds
    now,         \* datetime.now() of the development server, in whole seconds
    instances,   \* the dictionary `instances` of the decorator singleton
    made,        \* how many times TaskManger.__init__ has run
    cache_objs   \* the Cache objects of the process: object -> keys it holds

prodVars == <<tasks, api_pc, jobs, proc, revoked, cancel_pc, cancel_ok>>
stopVars == <<cache, os_procs, sigterm, stop_all_pc>>
devVars == <<tasks_db, bg, dev_proc, jmx_files>>
execVars == <<file_records, jmx_disk, request>>
clientVars == <<held>>
clockVars == <<now>>
singletonVars == <<instances, made, cache_objs>>
vars == <<tasks, api_pc, jobs, proc, revoked, cancel_pc, cancel_ok, last,
          cache, os_procs, sigterm, stop_all_pc, tasks_db, bg, dev_proc, jmx_files,
          file_records, jmx_disk, request, held,
          now, instances, made, cache_objs>>

-----------------------------------------------------------------------------
(* Bounds *)

\* number of task ids the tasks table can hold
MaxTasks == 1

TaskIds == 1..MaxTasks

\* stored names of test plans an execute request can name
Files == {"a.jmx"}

\* number of stored names upload_jmx can hand out
MaxUploads == 3

\* the stored names, told apart by the unique id generate_secure_filename
\* puts in each (utils/security.py lines 215-218)
StoredNames == 1..MaxUploads

\* number of task ids the development server can hand out
MaxDevTasks == 2

DevIds == 1..MaxDevTasks

\* file names with which the path jmx_files/<file_name> leaves the directory
\* jmx_files/ and names a file that exists outside of it
EscapingNames == {"../outside.jmx"}

\* file names an execute request to the development server can carry: the
\* name of an uploaded test plan, and a name no file has
RequestNames == Files \cup {"nonexistent.jmx"}

\* the same, and the escaping names
AnyRequestNames == RequestNames \cup EscapingNames

\* number of cache keys (output-file names)
MaxKeys == 2

Keys == 1..MaxKeys

\* number of process ids of the operating system
MaxPids == 2

Pids == 1..MaxPids

\* seconds the clock of the development server can advance
MaxSeconds == 2

\* JMeterManager objects and Cache objects a caller can pass to TaskManger
MaxObjects == 2
JmeterManagers == 1..MaxObjects
CacheObjs == 1..MaxObjects

\* the decorator's dictionary before the first construction
NoInstance == [id |-> 0]

-----------------------------------------------------------------------------
(* database/models.py *)

PENDING   == "pending"
RUNNING   == "running"
COMPLETED == "completed"
FAILED    == "failed"
CANCELLED == "cancelled"

TaskStatus == {PENDING, RUNNING, COMPLETED, FAILED, CANCELLED}

Terminal == {COMPLETED, FAILED, CANCELLED}

\* the absent row, Python's None in a nullable column, and an unset string
NoTask == [status |-> "absent"]
None   == 0
NoText == "none"

\* Task(name, jmx_file_name, jmx_file_path, jmx_file_hash, status): every other
\* column is nullable and starts as None
Task(file_name, status) ==
    [status        |-> status,
     jmx_file_name |-> file_name,
     process_id    |-> None,
     jtl_file_name |-> NoText,
     return_code   |-> NoText,
     stderr        |-> NoText,
     completed_at  |-> FALSE]

\* execute_jmeter_task.delay(task.id, path) returns the id of the enqueued job;
\* each call creates one job, named here by the task it carries
JobId(t) == t

-----------------------------------------------------------------------------
(* last: the operation performed last *)

Op(op, key, out) == [op |-> op, key |-> key, out |-> out]

-----------------------------------------------------------------------------
(* core/jmeter.py: JMeterManager.execute_jmx_async *)

\* lines 91-116: look the file record up, check the file on disk, insert the
\* task row in Pending and commit. The answer of the file_records query of
\* lines 92-96 (file_record) and the presence of the file on disk (on_disk)
\* are inputs of the call. The new row's id is a fresh uuid4.
ExecuteJmxAsyncCreate(file_name, file_record, on_disk) ==
    IF ~file_record \/ ~on_disk
    THEN /\ last' = Op("execute_jmx_async", None, "404")
         /\ UNCHANGED prodVars
    ELSE \E t \in TaskIds :
            /\ tasks[t] = NoTask
            /\ tasks' = [tasks EXCEPT ![t] = Task(file_name, PENDING)]
            /\ api_pc' = [api_pc EXCEPT ![t] = "created"]
            /\ last' = Op("execute_jmx_async", t, "created")
            /\ UNCHANGED <<jobs, proc, revoked, cancel_pc, cancel_ok>>

\* line 119: execute_jmeter_task.delay(str(task.id), file_record.file_path)
ExecuteJmxAsyncEnqueue(t) ==
    /\ api_pc[t] = "created"
    /\ jobs' = [jobs EXCEPT ![t] = "queued"]
    /\ api_pc' = [api_pc EXCEPT ![t] = "enqueued"]
    /\ last' = Op("delay", t, "queued")
    /\ UNCHANGED <<tasks, proc, revoked, cancel_pc, cancel_ok>>

\* mutant: the call returns without storing the job id on the task
ExecuteJmxAsyncReturn_Unlinked(t) ==
    /\ api_pc[t] = "enqueued"
    /\ api_pc' = [api_pc EXCEPT ![t] = "returned"]
    /\ last' = Op("execute_jmx_async", t, "pending")
    /\ UNCHANGED <<tasks, jobs, proc, revoked, cancel_pc, cancel_ok>>

\* lines 121-134: task.process_id = celery_task.id, commit (the UPDATE writes
\* the one column that was set), return the "pending" response
ExecuteJmxAsyncReturn(t) ==
    /\ api_pc[t] = "enqueued"
    /\ tasks' = [tasks EXCEPT ![t].process_id = JobId(t)]
    /\ api_pc' = [api_pc EXCEPT ![t] = "returned"]
    /\ last' = Op("execute_jmx_async", t, "pending")
    /\ UNCHANGED <<jobs, proc, revoked, cancel_pc, cancel_ok>>

-----------------------------------------------------------------------------
(* utils/tasks.py: execute_jmeter_task, the worker job *)

\* positions at which the job's Python code is executing
Executing == {"started", "prepared", "waiting"}

\* positions at which the job has returned its result dictionary
Returned == {"ret_success", "ret_failed"}

\* lines 133-145, except Exception: record the failure on the task and return
\* a "failed" result
RecordException(t, message) ==
    /\ tasks' = [tasks EXCEPT ![t].status = FAILED,
                              ![t].stderr = message,
                              ![t].completed_at = TRUE]
    /\ jobs' = [jobs EXCEPT ![t] = "ret_failed"]

\* lines 24-36: the worker takes the job from the queue, loads the task and
\* commits status Running, started_at and process_id = current_task.request.id
WorkerStart(t) ==
    /\ jobs[t] = "queued"
    /\ tasks' = [tasks EXCEPT ![t].status = RUNNING,
                              ![t].process_id = JobId(t)]
    /\ jobs' = [jobs EXCEPT ![t] = "started"]
    /\ last' = Op("execute_jmeter_task", t, "started")
    /\ UNCHANGED <<api_pc, proc, revoked, cancel_pc, cancel_ok>>

\* lines 24-30, 133-135, 147-148: the job is run with a task id that has no
\* row. The query returns None and line 30 raises ValueError; the handler of
\* line 133 then evaluates task.status = ... on None, and the AttributeError
\* leaves the job: no result dictionary is returned and nothing is written.
WorkerStartNoRecord(t) ==
    /\ tasks[t] = NoTask
    /\ last' = Op("execute_jmeter_task", t, "raised AttributeError")
    /\ UNCHANGED prodVars

\* lines 40-72: FileNotFoundError when the test plan is gone from disk;
\* otherwise build the command and commit command and jtl_file_name
WorkerPrepare(t, on_disk) ==
    /\ jobs[t] = "started"
    /\ IF on_disk
       THEN /\ tasks' = [tasks EXCEPT ![t].jtl_file_name = "jtl"]
            /\ jobs' = [jobs EXCEPT ![t] = "prepared"]
            /\ last' = Op("execute_jmeter_task", t, "prepared")
       ELSE /\ RecordException(t, "JMX file not found")
            /\ last' = Op("execute_jmeter_task", t, "failed")
    /\ UNCHANGED <<api_pc, proc, revoked, cancel_pc, cancel_ok>>

\* lines 76-84: subprocess.Popen(safe_command, preexec_fn=os.setsid); it raises
\* when the binary cannot be executed
WorkerLaunch(t, launched) ==
    /\ jobs[t] = "prepared"
    /\ IF launched
       THEN /\ proc' = [proc EXCEPT ![t] = "running"]
            /\ jobs' = [jobs EXCEPT ![t] = "waiting"]
            /\ last' = Op("Popen", t, "running")
            /\ UNCHANGED tasks
       ELSE /\ RecordException(t, "launch error")
            /\ last' = Op("Popen", t, "failed")
            /\ UNCHANGED proc
    /\ UNCHANGED <<api_pc, revoked, cancel_pc, cancel_ok>>

\* the external process exits by itself with a return code
ProcessExit(t, returncode) ==
    /\ proc[t] = "running"
    /\ proc' = [proc EXCEPT ![t] = IF returncode = 0 THEN "exit0" ELSE "exit1"]
    /\ last' = Op("exit", t, "exited")
    /\ UNCHANGED <<tasks, api_pc, jobs, revoked, cancel_pc, cancel_ok>>

\* mutant: the result is recorded as Completed whatever the return code
WorkerRecord_AlwaysCompleted(t) ==
    /\ jobs[t] = "waiting"
    /\ proc[t] \in {"exit0", "exit1"}
    /\ tasks' = [tasks EXCEPT ![t].status = COMPLETED,
                              ![t].return_code = proc[t],
                              ![t].stderr = "stderr",
                              ![t].completed_at = TRUE]
    /\ jobs' = [jobs EXCEPT ![t] = "ret_success"]
    /\ last' = Op("execute_jmeter_task", t, "success")
    /\ UNCHANGED <<api_pc, proc, revoked, cancel_pc, cancel_ok>>

\* lines 86-122: communicate() returns; record stdout, stderr, return_code,
\* cost_time, completed_at and the status, commit, return the result
WorkerRecord(t) ==
    /\ jobs[t] = "waiting"
    /\ proc[t] \in {"exit0", "exit1"}
    /\ LET ok == proc[t] = "exit0" IN
       /\ tasks' = [tasks EXCEPT ![t].status = IF ok THEN COMPLETED ELSE FAILED,
                                 ![t].return_code = proc[t],
                                 ![t].stderr = "stderr",
                                 ![t].completed_at = TRUE]
       /\ jobs' = [jobs EXCEPT ![t] = IF ok THEN "ret_success" ELSE "ret_failed"]
       /\ last' = Op("execute_jmeter_task", t, IF ok THEN "success" ELSE "failed")
    /\ UNCHANGED <<api_pc, proc, revoked, cancel_pc, cancel_ok>>

\* mutant: the timeout handler returns without writing the task
WorkerTimeout_Unrecorded(t) ==
    /\ jobs[t] = "waiting"
    /\ proc[t] = "running"
    /\ jobs' = [jobs EXCEPT ![t] = "ret_failed"]
    /\ last' = Op("execute_jmeter_task", t, "timeout")
    /\ UNCHANGED <<tasks, api_pc, proc, revoked, cancel_pc, cancel_ok>>

\* lines 87, 124-131: communicate(timeout=settings.jmeter_timeout) raises
\* TimeoutExpired while the process still runs; the handler records the
\* failure and returns. Nothing in it signals the process.
WorkerTimeout(t) ==
    /\ jobs[t] = "waiting"
    /\ proc[t] = "running"
    /\ tasks' = [tasks EXCEPT ![t].status = FAILED,
                              ![t].stderr = "Execution timeout",
                              ![t].completed_at = TRUE]
    /\ jobs' = [jobs EXCEPT ![t] = "ret_failed"]
    /\ last' = Op("execute_jmeter_task", t, "timeout")
    /\ UNCHANGED <<api_pc, proc, revoked, cancel_pc, cancel_ok>>

\* utils/celery_app.py lines 21-22: task_soft_time_limit = jmeter_timeout - 60
\* and task_time_limit = jmeter_timeout. In a pool that enforces time limits
\* the soft limit, counted from the start of the job, expires before the
\* timeout of communicate(), counted from the launch: SoftTimeLimitExceeded is
\* raised in the job while it waits, and, being an Exception and not a
\* TimeoutExpired, it is handled by lines 133-145 with stderr = str(exc).
\* Nothing in the handler signals the process.
WorkerSoftTimeLimit(t) ==
    /\ jobs[t] = "waiting"
    /\ proc[t] = "running"
    /\ RecordException(t, "SoftTimeLimitExceeded()")
    /\ last' = Op("execute_jmeter_task", t, "soft time limit")
    /\ UNCHANGED <<api_pc, proc, revoked, cancel_pc, cancel_ok>>

-----------------------------------------------------------------------------
(* core/jmeter.py: JMeterManager.execute_jmx_sync_dev *)

\* lines 140-166: the same lookup and disk check as execute_jmx_async, then
\* the task row is inserted with status Running and started_at, and committed
ExecuteJmxSyncDevCreate(file_name, file_record, on_disk) ==
    IF ~file_record \/ ~on_disk
    THEN /\ last' = Op("execute_jmx_sync_dev", None, "404")
         /\ UNCHANGED prodVars
    ELSE \E t \in TaskIds :
            /\ tasks[t] = NoTask
            /\ tasks' = [tasks EXCEPT ![t] = Task(file_name, RUNNING)]
            /\ api_pc' = [api_pc EXCEPT ![t] = "sync_running"]
            /\ last' = Op("execute_jmx_sync_dev", t, "created")
            /\ UNCHANGED <<jobs, proc, revoked, cancel_pc, cancel_ok>>

\* mutant: the timeout is reported to the caller but not written to the task
ExecuteJmxSyncDevFinish_TimeoutUnrecorded(t, outcome) ==
    /\ api_pc[t] = "sync_running"
    /\ tasks' = [tasks EXCEPT ![t] =
          IF outcome = "timeout" THEN @
          ELSE IF outcome \in {"dummy", "exit0"}
          THEN [@ EXCEPT !.status = COMPLETED, !.jtl_file_name = "jtl",
                         !.return_code = "exit0", !.completed_at = TRUE]
          ELSE [@ EXCEPT !.status = FAILED, !.stderr = "stderr",
                         !.completed_at = TRUE]]
    /\ api_pc' = [api_pc EXCEPT ![t] = "sync_returned"]
    /\ last' = Op("execute_jmx_sync_dev", t, outcome)
    /\ UNCHANGED <<jobs, proc, revoked, cancel_pc, cancel_ok>>

\* lines 168-284: the dummy run when no JMeter is installed (lines 177-208), or
\* subprocess.run(command, timeout=300) and the recording of its result (lines
\* 211-252), its TimeoutExpired (lines 254-268) or any other exception (lines
\* 270-284); each path commits and returns. subprocess.run kills the child it
\* started when the timeout expires.
ExecuteJmxSyncDevFinish(t, outcome) ==
    /\ api_pc[t] = "sync_running"
    /\ tasks' = [tasks EXCEPT ![t] =
          CASE outcome = "dummy" ->
                  [@ EXCEPT !.status = COMPLETED, !.jtl_file_name = "jtl",
                            !.return_code = "exit0", !.completed_at = TRUE]
            [] outcome = "exit0" ->
                  [@ EXCEPT !.status = COMPLETED, !.jtl_file_name = "jtl",
                            !.return_code = "exit0", !.stderr = "stderr",
                            !.completed_at = TRUE]
            [] outcome = "exit1" ->
                  [@ EXCEPT !.status = FAILED, !.return_code = "exit1",
                            !.stderr = "stderr", !.completed_at = TRUE]
            [] outcome = "timeout" ->
                  [@ EXCEPT !.status = FAILED, !.stderr = "Execution timeout",
                            !.completed_at = TRUE]
            [] OTHER ->
                  [@ EXCEPT !.status = FAILED, !.stderr = "exception",
                            !.completed_at = TRUE]]
    /\ api_pc' = [api_pc EXCEPT ![t] = "sync_returned"]
    /\ last' = Op("execute_jmx_sync_dev", t, outcome)
    /\ UNCHANGED <<jobs, proc, revoked, cancel_pc, cancel_ok>>

-----------------------------------------------------------------------------
(* main.py: generate_html_report, the production generate-report endpoint *)

\* lines 540-599: get_task_status (404 when the task is absent), 404 when the
\* task has no jtl_file_name or the file is not on disk; otherwise the report
\* is generated (by jmeter -g, or as a mock when JMeter is not installed) and
\* the outcome returned. The task's status is not read and the task row is
\* not written.
GenerateHtmlReport(t, jtl_on_disk, outcome) ==
    /\ last' = Op("generate_html_report", t,
                  IF tasks[t] = NoTask THEN "404 task"
                  ELSE IF tasks[t].jtl_file_name = NoText THEN "404 no jtl"
                  ELSE IF ~jtl_on_disk THEN "404 jtl not found"
                  ELSE outcome)
    /\ UNCHANGED prodVars

-----------------------------------------------------------------------------
(* core/jmeter.py: JMeterManager.cancel_task *)

\* line 416, celery_app.control.revoke(job, terminate=True), taken to act at
\* once: a job still in the queue is discarded and never starts; the worker
\* process executing the job is terminated where it stands. The external
\* process was started in a session of its own (os.setsid, tasks.py line 83)
\* and is not signalled by it.
Revoke(job) ==
    [t \in TaskIds |->
        IF JobId(t) # job THEN jobs[t]
        ELSE IF jobs[t] = "queued" THEN "discarded"
        ELSE IF jobs[t] \in Executing THEN "terminated"
        ELSE jobs[t]]

\* mutant: the job is never revoked
CancelTaskBegin_NeverRevokes(t) ==
    /\ cancel_pc[t] = "idle"
    /\ IF tasks[t] = NoTask
       THEN /\ last' = Op("cancel_task", t, "404")
            /\ UNCHANGED cancel_pc
       ELSE IF tasks[t].status \notin {PENDING, RUNNING}
       THEN /\ last' = Op("cancel_task", t, "400")
            /\ UNCHANGED cancel_pc
       ELSE /\ cancel_pc' = [cancel_pc EXCEPT ![t] = "checked"]
            /\ last' = Op("cancel_task", t, "no revoke")
    /\ UNCHANGED <<tasks, api_pc, jobs, proc, revoked, cancel_ok>>

\* mutant: the status of the loaded task is not looked at
CancelTaskBegin_NoStatusCheck(t) ==
    /\ cancel_pc[t] = "idle"
    /\ IF tasks[t] = NoTask
       THEN /\ last' = Op("cancel_task", t, "404")
            /\ UNCHANGED <<jobs, revoked, cancel_pc>>
       ELSE /\ cancel_pc' = [cancel_pc EXCEPT ![t] = "checked"]
            /\ IF tasks[t].process_id # None
               THEN /\ revoked' = revoked \cup {tasks[t].process_id}
                    /\ jobs' = Revoke(tasks[t].process_id)
                    /\ last' = Op("cancel_task", t, "revoke")
               ELSE /\ last' = Op("cancel_task", t, "no revoke")
                    /\ UNCHANGED <<jobs, revoked>>
    /\ UNCHANGED <<tasks, api_pc, proc, cancel_ok>>

\* lines 405-416: load the task; 404 when absent, 400 unless Pending or
\* Running; revoke the job when the loaded row carries a process_id
CancelTaskBegin(t) ==
    /\ cancel_pc[t] = "idle"
    /\ IF tasks[t] = NoTask
       THEN /\ last' = Op("cancel_task", t, "404")
            /\ UNCHANGED <<jobs, revoked, cancel_pc>>
       ELSE IF tasks[t].status \notin {PENDING, RUNNING}
       THEN /\ last' = Op("cancel_task", t, "400")
            /\ UNCHANGED <<jobs, revoked, cancel_pc>>
       ELSE /\ cancel_pc' = [cancel_pc EXCEPT ![t] = "checked"]
            /\ IF tasks[t].process_id # None
               THEN /\ revoked' = revoked \cup {tasks[t].process_id}
                    /\ jobs' = Revoke(tasks[t].process_id)
                    /\ last' = Op("cancel_task", t, "revoke")
               ELSE /\ last' = Op("cancel_task", t, "no revoke")
                    /\ UNCHANGED <<jobs, revoked>>
    /\ UNCHANGED <<tasks, api_pc, proc, cancel_ok>>

\* lines 418-425: set status Cancelled and completed_at on the loaded row,
\* commit, return the "cancelled" response
CancelTaskCommit(t) ==
    /\ cancel_pc[t] = "checked"
    /\ tasks' = [tasks EXCEPT ![t].status = CANCELLED,
                              ![t].completed_at = TRUE]
    /\ cancel_pc' = [cancel_pc EXCEPT ![t] = "idle"]
    /\ cancel_ok' = cancel_ok \cup {t}
    /\ last' = Op("cancel_task", t, "cancelled")
    /\ UNCHANGED <<api_pc, jobs, proc, revoked>>

-----------------------------------------------------------------------------
(* core/jmeter.py: RunCmdResp; core/cache.py: DictCache *)

\* a response object carrying the four fields, as the callers of RunCmdResp
\* expect to receive it
Response(pid, returncode, stdout, stderr) ==
    [pid |-> pid, returncode |-> returncode, stdout |-> stdout, stderr |-> stderr]

\* an exception raised to the caller
Raised(exception) == [raised |-> exception]

\* a value returned to the caller
Value(value) == [returned |-> value]

\* RunCmdResp(pid=..., returncode=..., stdout=..., stderr=...): the class
\* declares four annotations and no constructor, so a call with arguments
\* raises TypeError ("RunCmdResp() takes no arguments")
RunCmdResp(pid, returncode, stdout, stderr) == Raised("TypeError")

\* DictCache.get: self._cache.get(key)
CacheGet(key) == IF key \in DOMAIN cache THEN cache[key] ELSE None

\* mutant: set keeps the value a key already has
CacheSet_KeepsFirst(key, value, ttl) ==
    [k \in DOMAIN cache \cup {key} |->
        IF k \in DOMAIN cache THEN cache[k] ELSE value]

\* DictCache.set: self._cache[key] = value; ttl is not used
CacheSet(key, value, ttl) ==
    [k \in DOMAIN cache \cup {key} |-> IF k = key THEN value ELSE cache[k]]

\* DictCache.remove: del self._cache[key] when present
CacheRemove(key) == [k \in DOMAIN cache \ {key} |-> cache[k]]

\* mutant: remove always reports that it removed an entry
CacheRemoveReturns_AlwaysTrue(key) == TRUE

\* DictCache.remove, lines 55-58: the value it returns
CacheRemoveReturns(key) == key \in DOMAIN cache

\* nothing has been handed out by get_all_tasks
NoSnapshot == [ref |-> "none", taken |-> << >>]

\* DictCache.get_all_tasks, line 52, return self._cache: the caller receives
\* the dictionary object of the cache itself; taken is its content when the
\* call returned
CacheGetAllTasks == [ref |-> "_cache", taken |-> cache]

\* the mapping a holder of that result reads now
Mapping(result) == IF result.ref = "_cache" THEN cache ELSE result.taken

-----------------------------------------------------------------------------
(* The operating system's process table *)

NoProc == [state |-> "none", pgid |-> None]

\* the live processes in the process group of pid
GroupOf(pid) ==
    {q \in Pids : os_procs[q].state # "none" /\ os_procs[q].pgid = os_procs[pid].pgid}

\* core/task.py line 46, os.killpg(os.getpgid(pid), signal.SIGTERM):
\* getpgid raises ProcessLookupError when no process has that pid; killpg
\* raises PermissionError when the caller may signal no member of the group
StopTaskByIdRaises(pid) ==
    \/ os_procs[pid].state = "none"
    \/ \A q \in GroupOf(pid) : os_procs[q].state = "foreign"

\* the members of the group that receive the signal
Signalled(pid) == {q \in GroupOf(pid) : os_procs[q].state = "own"}

\* core/task.py line 46, when delivered: every member of the group the caller
\* may signal receives SIGTERM and terminates
StopTaskById(pid) ==
    /\ sigterm' = Signalled(pid)
    /\ os_procs' = [q \in Pids |-> IF q \in Signalled(pid) THEN NoProc ELSE os_procs[q]]

\* an operation of the cache-backed manager: its name, its key, what it
\* returned or raised, the branch it took, and whether it repeats the
\* operation before it
StopOp(op, key, out, via) ==
    [op |-> op, key |-> key, out |-> out, via |-> via,
     again |-> (last.op = op /\ last.key = key)]

\* a step of the environment
EnvOp == [op |-> "env", key |-> None, out |-> Value(None), via |-> "none",
          again |-> FALSE]

\* a process starts: a session leader (pgid = pid, as after os.setsid) or a
\* child in the group of a live process; owned by the service or by another
\* user
Spawn(pid, pgid, owner) ==
    /\ os_procs[pid].state = "none"
    /\ pgid = pid \/ os_procs[pgid].state # "none"
    /\ os_procs' = [os_procs EXCEPT ![pid] = [state |-> owner, pgid |-> pgid]]
    /\ sigterm' = {}
    /\ last' = EnvOp
    /\ UNCHANGED <<cache, stop_all_pc>>

\* a process exits by itself and is reaped
Exit(pid) ==
    /\ os_procs[pid].state # "none"
    /\ os_procs' = [os_procs EXCEPT ![pid] = NoProc]
    /\ sigterm' = {}
    /\ last' = EnvOp
    /\ UNCHANGED <<cache, stop_all_pc>>

-----------------------------------------------------------------------------
(* core/task.py: TaskManger *)

\* DictCache.set called by a client of the cache with the pid of a process it
\* has launched
Set(key, pid) ==
    /\ os_procs[pid].state # "none"
    /\ cache' = CacheSet(key, pid, -1)
    /\ sigterm' = {}
    /\ last' = StopOp("set", key, Value(None), "none")
    /\ UNCHANGED <<os_procs, stop_all_pc>>

\* DictCache.remove called by a client of the cache
Remove(key) ==
    /\ cache' = CacheRemove(key)
    /\ sigterm' = {}
    /\ last' = StopOp("remove", key, Value(None), "none")
    /\ UNCHANGED <<os_procs, stop_all_pc>>

\* lines 35-39, execute_jmx: delegates to jmeter_manager.execute_jmx(file_name=,
\* cache=). JMeterManager (core/jmeter.py lines 36-425) defines no execute_jmx,
\* so the attribute lookup raises AttributeError before anything is launched.
ExecuteJmx(file_name) ==
    /\ sigterm' = {}
    /\ last' = StopOp("execute_jmx", file_name, Raised("AttributeError"), "none")
    /\ UNCHANGED <<cache, os_procs, stop_all_pc>>

\* lines 48-79, stop_task_by_file_name: the branch the call takes
StopBranch(file_name) ==
    LET pid == CacheGet(file_name) IN
    IF pid # None
    THEN IF os_procs[pid].state = "none" THEN "no process"
         ELSE IF StopTaskByIdRaises(pid) THEN "not permitted"
         ELSE "killed"
    ELSE "absent"

\* lines 48-79, stop_task_by_file_name: what the call returns or raises
StopResult(file_name) ==
    LET pid == CacheGet(file_name) IN
    IF pid # None
    THEN IF StopTaskByIdRaises(pid)
         THEN RunCmdResp(pid, 1, "", "stop fail")
         ELSE RunCmdResp(pid, 0, "success", "")
    ELSE RunCmdResp(0, 1, "", "no found")

\* lines 48-79, stop_task_by_file_name: what the call does to the process
\* table and the cache. cache.remove (line 56) follows the kill inside the
\* try block, so it is skipped when the kill raises.
StopEffect(file_name) ==
    LET pid == CacheGet(file_name) IN
    IF pid # None /\ ~StopTaskByIdRaises(pid)
    THEN /\ StopTaskById(pid)
         /\ cache' = CacheRemove(file_name)
    ELSE /\ sigterm' = {}
         /\ UNCHANGED <<cache, os_procs>>

StopTaskByFileName(file_name) ==
    /\ StopEffect(file_name)
    /\ last' = StopOp("stop", file_name, StopResult(file_name), StopBranch(file_name))
    /\ UNCHANGED stop_all_pc

\* no stop_all call in progress
Idle == [keys |-> << >>, i |-> 1, out |-> << >>, active |-> FALSE]

\* the orders in which a dictionary holding the keys ks can list them
Orders(ks) ==
    {o \in [1..Cardinality(ks) -> ks] : \A i, j \in DOMAIN o : i # j => o[i] # o[j]}

\* line 82, stop_all: keys = list(self.list_tasks().keys())
StopAllBegin ==
    /\ ~stop_all_pc.active
    /\ \E o \in Orders(DOMAIN cache) :
          stop_all_pc' = [keys |-> o, i |-> 1, out |-> << >>, active |-> TRUE]
    /\ sigterm' = {}
    /\ last' = StopOp("stop_all", None, Value(None), "snapshot")
    /\ UNCHANGED <<cache, os_procs>>

\* line 83, one iteration of the list comprehension: stop the next key and
\* collect its response; an exception raised by the stop leaves stop_all
StopAllStep ==
    /\ stop_all_pc.active
    /\ stop_all_pc.i <= Len(stop_all_pc.keys)
    /\ LET key == stop_all_pc.keys[stop_all_pc.i]
           r == StopResult(key) IN
       /\ StopEffect(key)
       /\ IF "raised" \in DOMAIN r
          THEN /\ stop_all_pc' = Idle
               /\ last' = StopOp("stop_all", key, r, StopBranch(key))
          ELSE /\ stop_all_pc' = [stop_all_pc EXCEPT !.i = @ + 1,
                                                     !.out = Append(@, r)]
               /\ last' = StopOp("stop_all", key, Value(None), StopBranch(key))

\* line 83, the comprehension is exhausted: return the list of responses
StopAllReturn ==
    /\ stop_all_pc.active
    /\ stop_all_pc.i > Len(stop_all_pc.keys)
    /\ stop_all_pc' = Idle
    /\ sigterm' = {}
    /\ last' = StopOp("stop_all", None, Value(stop_all_pc.out), "return")
    /\ UNCHANGED <<cache, os_procs>>

-----------------------------------------------------------------------------
(* The cache-backed manager *)

InitStop ==
    /\ tasks = [t \in TaskIds |-> NoTask]
    /\ api_pc = [t \in TaskIds |-> "none"]
    /\ jobs = [t \in TaskIds |-> "none"]
    /\ proc = [t \in TaskIds |-> "none"]
    /\ revoked = {}
    /\ cancel_pc = [t \in TaskIds |-> "idle"]
    /\ cancel_ok = {}
    /\ last = EnvOp
    /\ cache = << >>
    /\ os_procs = [p \in Pids |-> NoProc]
    /\ sigterm = {}
    /\ stop_all_pc = Idle
    /\ tasks_db = [t \in DevIds |-> NoTask]
    /\ bg = [t \in DevIds |-> "none"]
    /\ dev_proc = [t \in DevIds |-> "none"]
    /\ jmx_files = {}
    /\ file_records = {}
    /\ jmx_disk = {}
    /\ request = None
    /\ held = NoSnapshot
    /\ now = 0
    /\ instances = NoInstance
    /\ made = 0
    /\ cache_objs = [c \in CacheObjs |-> {}]

NextStop ==
    \/ \E p \in Pids, g \in Pids, o \in {"own", "foreign"} : Spawn(p, g, o) /\ UNCHANGED <<prodVars, devVars, execVars, clientVars, clockVars, singletonVars>>
    \/ \E p \in Pids : Exit(p) /\ UNCHANGED <<prodVars, devVars, execVars, clientVars, clockVars, singletonVars>>
    \/ \E k \in Keys, p \in Pids : Set(k, p) /\ UNCHANGED <<prodVars, devVars, execVars, clientVars, clockVars, singletonVars>>
    \/ \E k \in Keys : Remove(k) /\ UNCHANGED <<prodVars, devVars, execVars, clientVars, clockVars, singletonVars>>
    \/ \E k \in Keys : ExecuteJmx(k) /\ UNCHANGED <<prodVars, devVars, execVars, clientVars, clockVars, singletonVars>>
    \/ \E k \in Keys : StopTaskByFileName(k) /\ UNCHANGED <<prodVars, devVars, execVars, clientVars, clockVars, singletonVars>>
    \/ StopAllBegin /\ UNCHANGED <<prodVars, devVars, execVars, clientVars, clockVars, singletonVars>>
    \/ StopAllStep /\ UNCHANGED <<prodVars, devVars, execVars, clientVars, clockVars, singletonVars>>
    \/ StopAllReturn /\ UNCHANGED <<prodVars, devVars, execVars, clientVars, clockVars, singletonVars>>

SpecStop == InitStop /\ [][NextStop]_vars

-----------------------------------------------------------------------------
(* core/cache.py: DictCache and a client of it *)

\* an operation on the cache: its name, its key, value and ttl arguments and
\* what it returned
CacheOp(op, key, value, ttl, out) ==
    [op |-> op, key |-> key, value |-> value, ttl |-> ttl, out |-> out]

NoCacheOp == CacheOp("none", None, None, None, None)

\* values of the ttl argument of set: the default -1 and a number of seconds
Ttls == {-1, 1}

\* lines 42-43, get
ClientGet(key) ==
    /\ last' = CacheOp("get", key, None, None, CacheGet(key))
    /\ UNCHANGED <<cache, held>>

\* lines 45-46, set
ClientSet(key, value, ttl) ==
    /\ cache' = CacheSet(key, value, ttl)
    /\ last' = CacheOp("set", key, value, ttl, None)
    /\ UNCHANGED held

\* lines 54-58, remove
ClientRemove(key) ==
    /\ cache' = CacheRemove(key)
    /\ last' = CacheOp("remove", key, None, None, CacheRemoveReturns(key))
    /\ UNCHANGED held

\* lines 51-52, get_all_tasks, and core/task.py lines 41-42, list_tasks, which
\* returns what get_all_tasks returns: the caller keeps the result
ClientGetAllTasks ==
    /\ held' = CacheGetAllTasks
    /\ last' = CacheOp("get_all_tasks", None, None, None, None)
    /\ UNCHANGED cache

\* time passes, also beyond the ttl given to a set: the cache has no code
\* that runs by itself and set did not store the ttl (lines 45-46)
TimePasses ==
    /\ last' = CacheOp("time", None, None, None, None)
    /\ UNCHANGED <<cache, held>>

InitCache ==
    /\ tasks = [t \in TaskIds |-> NoTask]
    /\ api_pc = [t \in TaskIds |-> "none"]
    /\ jobs = [t \in TaskIds |-> "none"]
    /\ proc = [t \in TaskIds |-> "none"]
    /\ revoked = {}
    /\ cancel_pc = [t \in TaskIds |-> "idle"]
    /\ cancel_ok = {}
    /\ last = NoCacheOp
    /\ cache = << >>
    /\ os_procs = [p \in Pids |-> NoProc]
    /\ sigterm = {}
    /\ stop_all_pc = Idle
    /\ tasks_db = [t \in DevIds |-> NoTask]
    /\ bg = [t \in DevIds |-> "none"]
    /\ dev_proc = [t \in DevIds |-> "none"]
    /\ jmx_files = {}
    /\ file_records = {}
    /\ jmx_disk = {}
    /\ request = None
    /\ held = NoSnapshot
    /\ now = 0
    /\ instances = NoInstance
    /\ made = 0
    /\ cache_objs = [c \in CacheObjs |-> {}]

\* everything but the cache and what its client holds
notCacheVars ==
    <<prodVars, os_procs, sigterm, stop_all_pc, devVars, execVars, clockVars,
      singletonVars>>

NextCache ==
    \/ \E k \in Keys : ClientGet(k) /\ UNCHANGED notCacheVars
    \/ \E k \in Keys, v \in Pids, ttl \in Ttls : ClientSet(k, v, ttl) /\ UNCHANGED notCacheVars
    \/ \E k \in Keys : ClientRemove(k) /\ UNCHANGED notCacheVars
    \/ ClientGetAllTasks /\ UNCHANGED notCacheVars
    \/ TimePasses /\ UNCHANGED notCacheVars

SpecCache == InitCache /\ [][NextCache]_vars

-----------------------------------------------------------------------------
(* The database-backed manager and its worker *)

NoOp == Op("none", None, "none")

\* the ways the run of execute_jmx_sync_dev can end
SyncOutcomes == {"dummy", "exit0", "exit1", "timeout", "exception"}

\* whether the result log of the task can be on disk: JMeter writes it once
\* launched (tasks.py lines 52-58, -l output_path), the dummy run of
\* execute_jmx_sync_dev writes it itself (core/jmeter.py lines 180-186)
JtlOnDisk(t) ==
    IF proc[t] # "none" \/ (api_pc[t] = "sync_returned" /\ tasks[t].jtl_file_name # NoText)
    THEN BOOLEAN ELSE {FALSE}

\* the ways a started report generation can end
ReportOutcomes == {"generated", "500 failed", "500 timed out"}

Init ==
    /\ tasks = [t \in TaskIds |-> NoTask]
    /\ api_pc = [t \in TaskIds |-> "none"]
    /\ jobs = [t \in TaskIds |-> "none"]
    /\ proc = [t \in TaskIds |-> "none"]
    /\ revoked = {}
    /\ cancel_pc = [t \in TaskIds |-> "idle"]
    /\ cancel_ok = {}
    /\ last = NoOp
    /\ cache = << >>
    /\ os_procs = [p \in Pids |-> NoProc]
    /\ sigterm = {}
    /\ stop_all_pc = Idle
    /\ tasks_db = [t \in DevIds |-> NoTask]
    /\ bg = [t \in DevIds |-> "none"]
    /\ dev_proc = [t \in DevIds |-> "none"]
    /\ jmx_files = {}
    /\ file_records = {}
    /\ jmx_disk = {}
    /\ request = None
    /\ held = NoSnapshot
    /\ now = 0
    /\ instances = NoInstance
    /\ made = 0
    /\ cache_objs = [c \in CacheObjs |-> {}]

Next ==
    \/ \E f \in Files, r \in BOOLEAN, d \in BOOLEAN : ExecuteJmxAsyncCreate(f, r, d) /\ UNCHANGED <<stopVars, devVars, execVars, clientVars, clockVars, singletonVars>>
    \/ \E t \in TaskIds : ExecuteJmxAsyncEnqueue(t) /\ UNCHANGED <<stopVars, devVars, execVars, clientVars, clockVars, singletonVars>>
    \/ \E t \in TaskIds : ExecuteJmxAsyncReturn(t) /\ UNCHANGED <<stopVars, devVars, execVars, clientVars, clockVars, singletonVars>>
    \/ \E t \in TaskIds : WorkerStart(t) /\ UNCHANGED <<stopVars, devVars, execVars, clientVars, clockVars, singletonVars>>
    \/ \E t \in TaskIds : WorkerStartNoRecord(t) /\ UNCHANGED <<stopVars, devVars, execVars, clientVars, clockVars, singletonVars>>
    \/ \E t \in TaskIds, d \in BOOLEAN : WorkerPrepare(t, d) /\ UNCHANGED <<stopVars, devVars, execVars, clientVars, clockVars, singletonVars>>
    \/ \E t \in TaskIds, l \in BOOLEAN : WorkerLaunch(t, l) /\ UNCHANGED <<stopVars, devVars, execVars, clientVars, clockVars, singletonVars>>
    \/ \E t \in TaskIds, rc \in {0, 1} : ProcessExit(t, rc) /\ UNCHANGED <<stopVars, devVars, execVars, clientVars, clockVars, singletonVars>>
    \/ \E t \in TaskIds : WorkerRecord(t) /\ UNCHANGED <<stopVars, devVars, execVars, clientVars, clockVars, singletonVars>>
    \/ \E t \in TaskIds : WorkerTimeout(t) /\ UNCHANGED <<stopVars, devVars, execVars, clientVars, clockVars, singletonVars>>
    \/ \E t \in TaskIds : WorkerSoftTimeLimit(t) /\ UNCHANGED <<stopVars, devVars, execVars, clientVars, clockVars, singletonVars>>
    \/ \E f \in Files, r, d \in BOOLEAN : ExecuteJmxSyncDevCreate(f, r, d) /\ UNCHANGED <<stopVars, devVars, execVars, clientVars, clockVars, singletonVars>>
    \/ \E t \in TaskIds, o \in SyncOutcomes : ExecuteJmxSyncDevFinish(t, o) /\ UNCHANGED <<stopVars, devVars, execVars, clientVars, clockVars, singletonVars>>
    \/ \E t \in TaskIds, o \in ReportOutcomes : \E d \in JtlOnDisk(t) :
          GenerateHtmlReport(t, d, o) /\ UNCHANGED <<stopVars, devVars, execVars, clientVars, clockVars, singletonVars>>
    \/ \E t \in TaskIds : CancelTaskBegin(t) /\ UNCHANGED <<stopVars, devVars, execVars, clientVars, clockVars, singletonVars>>
    \/ \E t \in TaskIds : CancelTaskCommit(t) /\ UNCHANGED <<stopVars, devVars, execVars, clientVars, clockVars, singletonVars>>

Spec == Init /\ [][Next]_vars

-----------------------------------------------------------------------------
(* core/jmeter.py: the file records and the lookup of execute_jmx_async *)

\* FileRecord(original_name, stored_name, file_path, file_type, ...):
\* is_deleted takes its column default
FileRecord(stored_name) ==
    [stored_name |-> stored_name, file_type |-> "jmx", is_deleted |-> FALSE]

\* line 94, `FileRecord.is_deleted is False`: Python evaluates the identity
\* test between the column attribute and False when the filter is built,
\* before any row is read; the attribute is not the object False
IsDeletedIsFalse(record) == FALSE

\* lines 92-96: query(FileRecord).filter(stored_name == file_name,
\* file_type == FileType.JMX, FileRecord.is_deleted is False).first(),
\* as the truth value line 98 tests
FileRecordQuery(file_name) ==
    \E record \in file_records :
        /\ record.stored_name = file_name
        /\ record.file_type = "jmx"
        /\ IsDeletedIsFalse(record)

\* lines 42-87, upload_jmx: 400 when validation fails; else the file is
\* written under a fresh secure name and its record is committed
UploadJmx(stored_name, is_valid) ==
    /\ stored_name \notin jmx_disk
    /\ \A record \in file_records : record.stored_name # stored_name
    /\ IF ~is_valid
       THEN /\ last' = Op("upload_jmx", None, "400")
            /\ UNCHANGED <<file_records, jmx_disk>>
       ELSE /\ jmx_disk' = jmx_disk \cup {stored_name}
            /\ file_records' = file_records \cup {FileRecord(stored_name)}
            /\ last' = Op("upload_jmx", stored_name, "stored")
    /\ UNCHANGED <<prodVars, request>>

\* the environment removes an uploaded file from disk; its record stays
\* (lines 100-103 check for this)
RemoveFromDisk(stored_name) ==
    /\ stored_name \in jmx_disk
    /\ jmx_disk' = jmx_disk \ {stored_name}
    /\ last' = Op("unlink", stored_name, "removed")
    /\ UNCHANGED <<prodVars, file_records, request>>

\* lines 89-116, execute_jmx_async(file_name) with the lookup and the disk
\* check made on the current records and disk
ExecuteJmxAsync(file_name) ==
    /\ ExecuteJmxAsyncCreate(file_name, FileRecordQuery(file_name), file_name \in jmx_disk)
    /\ request' = file_name
    /\ UNCHANGED <<file_records, jmx_disk>>

InitExec == Init

NextExec ==
    \/ \E n \in StoredNames, v \in BOOLEAN : UploadJmx(n, v) /\ UNCHANGED <<stopVars, devVars, clientVars, clockVars, singletonVars>>
    \/ \E n \in StoredNames : RemoveFromDisk(n) /\ UNCHANGED <<stopVars, devVars, clientVars, clockVars, singletonVars>>
    \/ \E n \in StoredNames : ExecuteJmxAsync(n) /\ UNCHANGED <<stopVars, devVars, clientVars, clockVars, singletonVars>>

SpecExec == InitExec /\ [][NextExec]_vars

-----------------------------------------------------------------------------
(* dev_server.py: the development server *)

\* an operation of the development server: its name, the task it concerns,
\* the file name it was given, its outcome
DevOp(op, key, file, out) == [op |-> op, key |-> key, file |-> file, out |-> out]

\* the stems of the names clients send, and of the names upload_file stores
PlainStems == {"a", "nonexistent"}
KnownStems ==
    PlainStems \cup {st \o "_" \o ToString(n) : st \in PlainStems, n \in 0..MaxSeconds}

\* str.endswith(".jmx")
EndsWithJmx(file_name) == \E st \in KnownStems : file_name = st \o ".jmx"

\* Path(file_name).stem: the last component of the name without its suffix
Stem(file_name) ==
    IF file_name = "../outside.jmx" THEN "outside"
    ELSE CHOOSE st \in KnownStems : file_name = st \o ".jmx"

\* lines 140-141, upload_file: the name a file is stored under is
\* f"{Path(file.filename).stem}_{timestamp}.jmx"
SafeFilename(filename, timestamp) ==
    Stem(filename) \o "_" \o ToString(timestamp) \o ".jmx"

\* lines 350-351: datetime.now().strftime("%Y%m%d_%H%M%S") has a resolution of
\* one second; the output name is f"{jmx_path.stem}_{timestamp}.jtl"
OutputFilename(file_name, timestamp) ==
    Stem(file_name) \o "_" \o ToString(timestamp) \o ".jtl"

\* lines 371-379: the task dictionary built by execute_jmx ("output_file" is
\* set from the start); "message" and "report_path" are keys added later
DevTask(file_name) ==
    [status       |-> PENDING,
     file_name    |-> file_name,
     output_file  |-> OutputFilename(file_name, now),
     message      |-> NoText,
     report_path  |-> NoText,
     completed_at |-> FALSE]

\* lines 132-176, upload_file: the file is written to jmx_files/ under its
\* stored name
DevUploadFile(file_name) ==
    /\ jmx_files' = jmx_files \cup {file_name}
    /\ last' = DevOp("upload_file", None, file_name, "uploaded")
    /\ UNCHANGED <<tasks_db, bg, dev_proc>>

\* dev_server.py lines 343-344: (Path("jmx_files") / request.file_name).exists();
\* the name is joined to the directory as it came in the request
JmxPathExists(file_name) ==
    file_name \in jmx_files \/ file_name \in EscapingNames

\* mutant: the task is stored under a key made from the file name, so that a
\* second run of a file takes the place of the first
DevExecuteJmx_KeyedByFile(file_name, jmeter_available) ==
    IF ~JmxPathExists(file_name)
    THEN /\ last' = DevOp("execute_jmx", None, file_name, "404")
         /\ UNCHANGED devVars
    ELSE \E t \in DevIds :
            /\ \/ /\ tasks_db[t] # NoTask
                  /\ tasks_db[t].file_name = file_name
               \/ /\ tasks_db[t] = NoTask
                  /\ \A u \in DevIds : tasks_db[u] = NoTask
            /\ tasks_db' = [tasks_db EXCEPT ![t] = DevTask(file_name)]
            /\ bg' = [bg EXCEPT ![t] = "scheduled"]
            /\ last' = DevOp("execute_jmx", t, file_name, PENDING)
            /\ UNCHANGED <<dev_proc, jmx_files>>

\* mutant: the task is stored before the file is looked for
DevExecuteJmx_StoresFirst(file_name, jmeter_available) ==
    \E t \in DevIds :
        /\ tasks_db[t] = NoTask
        /\ tasks_db' = [tasks_db EXCEPT ![t] = DevTask(file_name)]
        /\ IF ~JmxPathExists(file_name)
           THEN /\ last' = DevOp("execute_jmx", None, file_name, "404")
                /\ bg' = bg
           ELSE /\ last' = DevOp("execute_jmx", t, file_name, PENDING)
                /\ bg' = [bg EXCEPT ![t] = "scheduled"]
        /\ UNCHANGED <<dev_proc, jmx_files>>

\* lines 338-432, execute_jmx: 404 when jmx_files/<file_name> does not exist;
\* otherwise the task is stored as "pending" under a fresh uuid4 and, when
\* JMeter is installed, execute_jmeter_background is scheduled with
\* asyncio.create_task; when it is not, a dummy result log is written and the
\* task is marked "completed" before the handler returns
DevExecuteJmx(file_name, jmeter_available) ==
    IF ~JmxPathExists(file_name)
    THEN /\ last' = DevOp("execute_jmx", None, file_name, "404")
         /\ UNCHANGED devVars
    ELSE \E t \in DevIds :
            /\ tasks_db[t] = NoTask
            /\ IF jmeter_available
               THEN /\ tasks_db' = [tasks_db EXCEPT ![t] = DevTask(file_name)]
                    /\ bg' = [bg EXCEPT ![t] = "scheduled"]
                    /\ last' = DevOp("execute_jmx", t, file_name, PENDING)
               ELSE /\ tasks_db' = [tasks_db EXCEPT ![t] =
                           [DevTask(file_name) EXCEPT !.status = COMPLETED,
                                                      !.completed_at = TRUE]]
                    /\ bg' = bg
                    /\ last' = DevOp("execute_jmx", t, file_name, COMPLETED)
            /\ UNCHANGED <<dev_proc, jmx_files>>

\* lines 280-286, execute_jmeter_background up to its first await: the task is
\* marked "running"
BgStart(t) ==
    /\ bg[t] = "scheduled"
    /\ tasks_db' = [tasks_db EXCEPT ![t].status = RUNNING]
    /\ bg' = [bg EXCEPT ![t] = "launching"]
    /\ last' = DevOp("execute_jmeter_background", t, NoText, RUNNING)
    /\ UNCHANGED <<dev_proc, jmx_files>>

\* lines 291-293, asyncio.create_subprocess_exec: the process is started, or
\* the call raises and lines 330-335 mark the task "failed"
BgLaunch(t, launched) ==
    /\ bg[t] = "launching"
    /\ IF launched
       THEN /\ dev_proc' = [dev_proc EXCEPT ![t] = "running"]
            /\ bg' = [bg EXCEPT ![t] = "waiting"]
            /\ last' = DevOp("execute_jmeter_background", t, NoText, "launched")
            /\ UNCHANGED tasks_db
       ELSE /\ tasks_db' = [tasks_db EXCEPT ![t].status = FAILED,
                                           ![t].message = "execution error"]
            /\ bg' = [bg EXCEPT ![t] = "done"]
            /\ last' = DevOp("execute_jmeter_background", t, NoText, "error")
            /\ UNCHANGED dev_proc
    /\ UNCHANGED jmx_files

\* the JMeter process exits by itself with a return code
DevProcessExit(t, returncode) ==
    /\ dev_proc[t] = "running"
    /\ dev_proc' = [dev_proc EXCEPT ![t] = IF returncode = 0 THEN "exit0" ELSE "exit1"]
    /\ last' = DevOp("exit", t, NoText, "exited")
    /\ UNCHANGED <<tasks_db, bg, jmx_files>>

\* mutant: the result of a run is recorded on every task of the same test plan
BgRecord_ByFileName(t, jtl_on_disk, jmeter_available) ==
    /\ bg[t] = "waiting"
    /\ dev_proc[t] \in {"exit0", "exit1"}
    /\ tasks_db' = [u \in DevIds |->
          IF tasks_db[u] # NoTask /\ tasks_db[u].file_name = tasks_db[t].file_name
          THEN [tasks_db[u] EXCEPT
                  !.status = IF dev_proc[t] = "exit1" THEN FAILED ELSE COMPLETED,
                  !.message = IF dev_proc[t] = "exit1" THEN "execution failed: stderr"
                              ELSE "completed",
                  !.completed_at = TRUE]
          ELSE tasks_db[u]]
    /\ bg' = [bg EXCEPT ![t] = "done"]
    /\ last' = DevOp("execute_jmeter_background", t, NoText,
                     IF dev_proc[t] = "exit1" THEN FAILED ELSE "no jtl")
    /\ UNCHANGED <<dev_proc, jmx_files>>

\* lines 295-322, with auto_generate_report (lines 183-275) up to its first
\* await: communicate() has returned. Return code 0: the task is marked
\* "completed" and auto_generate_report is awaited; it returns at once when the
\* result log is not on disk, it writes a mock report and sets report_path
\* when JMeter is not installed, and otherwise it starts jmeter -g and waits.
\* Any other return code: the task is marked "failed". Lines 320-322 set
\* cost_time and completed_at when the branch is done.
BgRecord(t, jtl_on_disk, jmeter_available) ==
    /\ bg[t] = "waiting"
    /\ dev_proc[t] \in {"exit0", "exit1"}
    /\ IF dev_proc[t] = "exit1"
       THEN /\ tasks_db' = [tasks_db EXCEPT ![t].status = FAILED,
                                           ![t].message = "execution failed: stderr",
                                           ![t].completed_at = TRUE]
            /\ bg' = [bg EXCEPT ![t] = "done"]
            /\ last' = DevOp("execute_jmeter_background", t, NoText, FAILED)
       ELSE IF ~jtl_on_disk
       THEN /\ tasks_db' = [tasks_db EXCEPT ![t].status = COMPLETED,
                                           ![t].message = "completed",
                                           ![t].completed_at = TRUE]
            /\ bg' = [bg EXCEPT ![t] = "done"]
            /\ last' = DevOp("auto_generate_report", t, NoText, "no jtl")
       ELSE IF ~jmeter_available
       THEN /\ tasks_db' = [tasks_db EXCEPT ![t].status = COMPLETED,
                                           ![t].message = "completed",
                                           ![t].report_path = "reports",
                                           ![t].completed_at = TRUE]
            /\ bg' = [bg EXCEPT ![t] = "done"]
            /\ last' = DevOp("auto_generate_report", t, NoText, "generated")
       ELSE /\ tasks_db' = [tasks_db EXCEPT ![t].status = COMPLETED,
                                           ![t].message = "completed"]
            /\ bg' = [bg EXCEPT ![t] = "reporting"]
            /\ last' = DevOp("auto_generate_report", t, NoText, "started")
    /\ UNCHANGED <<dev_proc, jmx_files>>

\* mutant: a task that timed out is dropped from the store
BgTimeout_DropsTask(t) ==
    /\ bg[t] = "waiting"
    /\ dev_proc[t] = "running"
    /\ tasks_db' = [tasks_db EXCEPT ![t] = NoTask]
    /\ bg' = [bg EXCEPT ![t] = "done"]
    /\ last' = DevOp("execute_jmeter_background", t, NoText, "timed out")
    /\ UNCHANGED <<dev_proc, jmx_files>>

\* lines 295, 324-329: asyncio.wait_for(process.communicate(), timeout=300)
\* raises TimeoutError while the process still runs; the task is marked
\* "failed" with the timed-out message. The wait is cancelled; nothing signals
\* the process, and completed_at is not set.
BgTimeout(t) ==
    /\ bg[t] = "waiting"
    /\ dev_proc[t] = "running"
    /\ tasks_db' = [tasks_db EXCEPT ![t].status = FAILED,
                                   ![t].message = "timed out"]
    /\ bg' = [bg EXCEPT ![t] = "done"]
    /\ last' = DevOp("execute_jmeter_background", t, NoText, "timed out")
    /\ UNCHANGED <<dev_proc, jmx_files>>

\* the ways a report generation by jmeter -g can end
DevReportOutcomes == {"generated", "failed", "timed out", "error"}

\* mutant: a failed report generation marks the task "failed"
BgReportFinish_FailsTask(t, outcome) ==
    /\ bg[t] = "reporting"
    /\ tasks_db' = [tasks_db EXCEPT
          ![t].status = IF outcome = "generated" THEN @ ELSE FAILED,
          ![t].report_path = IF outcome = "generated" THEN "reports" ELSE @,
          ![t].completed_at = TRUE]
    /\ bg' = [bg EXCEPT ![t] = "done"]
    /\ last' = DevOp("auto_generate_report", t, NoText, outcome)
    /\ UNCHANGED <<dev_proc, jmx_files>>

\* lines 230-242, 274-275 and 320-322: the report process has ended. Return
\* code 0 sets report_path; a non-zero return code, the TimeoutError of the
\* wait and any other exception are logged inside auto_generate_report. Then
\* execute_jmeter_background sets cost_time and completed_at.
BgReportFinish(t, outcome) ==
    /\ bg[t] = "reporting"
    /\ tasks_db' = [tasks_db EXCEPT
          ![t].report_path = IF outcome = "generated" THEN "reports" ELSE @,
          ![t].completed_at = TRUE]
    /\ bg' = [bg EXCEPT ![t] = "done"]
    /\ last' = DevOp("auto_generate_report", t, NoText, outcome)
    /\ UNCHANGED <<dev_proc, jmx_files>>

\* lines 569-720, generate_html_report: what the endpoint answers
DevReportResult(t, jtl_on_disk, jmeter_available, outcome) ==
    IF tasks_db[t] = NoTask THEN "404 task"
    ELSE IF tasks_db[t].status # COMPLETED THEN "400"
    ELSE IF ~jtl_on_disk THEN "404 jtl"
    ELSE IF ~jmeter_available THEN "generated"
    ELSE outcome

\* mutant: the endpoint does not check that the task is completed
DevGenerateHtmlReport_Unchecked(t, jtl_on_disk, jmeter_available, outcome) ==
    LET r == IF tasks_db[t] = NoTask THEN "404 task"
             ELSE IF ~jtl_on_disk THEN "404 jtl"
             ELSE IF ~jmeter_available THEN "generated"
             ELSE outcome IN
    /\ tasks_db' = IF r = "generated"
                   THEN [tasks_db EXCEPT ![t].report_path = "reports"]
                   ELSE tasks_db
    /\ last' = DevOp("generate_html_report", t, NoText, r)
    /\ UNCHANGED <<bg, dev_proc, jmx_files>>

\* lines 569-720, generate_html_report: the handler runs without awaiting
\* (subprocess.run blocks); report_path is set when the report was generated
\* (lines 617-622) or mocked (lines 698-700)
DevGenerateHtmlReport(t, jtl_on_disk, jmeter_available, outcome) ==
    LET r == DevReportResult(t, jtl_on_disk, jmeter_available, outcome) IN
    /\ tasks_db' = IF r = "generated"
                   THEN [tasks_db EXCEPT ![t].report_path = "reports"]
                   ELSE tasks_db
    /\ last' = DevOp("generate_html_report", t, NoText, r)
    /\ UNCHANGED <<bg, dev_proc, jmx_files>>

\* lines 472-483, list_tasks: every task of the store (as the set of their ids)
ListTasks == {t \in DevIds : tasks_db[t] # NoTask}

\* lines 486-497, get_task_status: 404 when the id is not in the store, else
\* the stored task
GetTaskStatus(task_id) ==
    IF tasks_db[task_id] = NoTask THEN Raised("404") ELSE Value(tasks_db[task_id])

NoDevOp == DevOp("none", None, NoText, "none")

InitDev ==
    /\ tasks = [t \in TaskIds |-> NoTask]
    /\ api_pc = [t \in TaskIds |-> "none"]
    /\ jobs = [t \in TaskIds |-> "none"]
    /\ proc = [t \in TaskIds |-> "none"]
    /\ revoked = {}
    /\ cancel_pc = [t \in TaskIds |-> "idle"]
    /\ cancel_ok = {}
    /\ last = NoDevOp
    /\ cache = << >>
    /\ os_procs = [p \in Pids |-> NoProc]
    /\ sigterm = {}
    /\ stop_all_pc = Idle
    /\ tasks_db = [t \in DevIds |-> NoTask]
    /\ bg = [t \in DevIds |-> "none"]
    /\ dev_proc = [t \in DevIds |-> "none"]
    /\ jmx_files = {}
    /\ file_records = {}
    /\ jmx_disk = {}
    /\ request = None
    /\ held = NoSnapshot
    /\ now = 0
    /\ instances = NoInstance
    /\ made = 0
    /\ cache_objs = [c \in CacheObjs |-> {}]

NextDev ==
    \/ \E f \in Files : DevUploadFile(f) /\ UNCHANGED <<prodVars, stopVars, execVars, clientVars, clockVars, singletonVars>>
    \/ \E f \in RequestNames, a \in BOOLEAN : DevExecuteJmx(f, a) /\ UNCHANGED <<prodVars, stopVars, execVars, clientVars, clockVars, singletonVars>>
    \/ \E t \in DevIds : BgStart(t) /\ UNCHANGED <<prodVars, stopVars, execVars, clientVars, clockVars, singletonVars>>
    \/ \E t \in DevIds, l \in BOOLEAN : BgLaunch(t, l) /\ UNCHANGED <<prodVars, stopVars, execVars, clientVars, clockVars, singletonVars>>
    \/ \E t \in DevIds, rc \in {0, 1} : DevProcessExit(t, rc) /\ UNCHANGED <<prodVars, stopVars, execVars, clientVars, clockVars, singletonVars>>
    \/ \E t \in DevIds, d, a \in BOOLEAN : BgRecord(t, d, a) /\ UNCHANGED <<prodVars, stopVars, execVars, clientVars, clockVars, singletonVars>>
    \/ \E t \in DevIds : BgTimeout(t) /\ UNCHANGED <<prodVars, stopVars, execVars, clientVars, clockVars, singletonVars>>
    \/ \E t \in DevIds, o \in DevReportOutcomes : BgReportFinish(t, o) /\ UNCHANGED <<prodVars, stopVars, execVars, clientVars, clockVars, singletonVars>>
    \/ \E t \in DevIds, d, a \in BOOLEAN, o \in DevReportOutcomes :
          DevGenerateHtmlReport(t, d, a, o) /\ UNCHANGED <<prodVars, stopVars, execVars, clientVars, clockVars, singletonVars>>

SpecDev == InitDev /\ [][NextDev]_vars

\* the development server serving execute requests with any file name, up
\* to the launch of JMeter and its exit
NextPath ==
    \/ \E f \in Files : DevUploadFile(f) /\ UNCHANGED <<prodVars, stopVars, execVars, clientVars, clockVars, singletonVars>>
    \/ \E f \in AnyRequestNames, a \in BOOLEAN : DevExecuteJmx(f, a) /\ UNCHANGED <<prodVars, stopVars, execVars, clientVars, clockVars, singletonVars>>
    \/ \E t \in DevIds : BgStart(t) /\ UNCHANGED <<prodVars, stopVars, execVars, clientVars, clockVars, singletonVars>>
    \/ \E t \in DevIds, l \in BOOLEAN : BgLaunch(t, l) /\ UNCHANGED <<prodVars, stopVars, execVars, clientVars, clockVars, singletonVars>>
    \/ \E t \in DevIds, rc \in {0, 1} : DevProcessExit(t, rc) /\ UNCHANGED <<prodVars, stopVars, execVars, clientVars, clockVars, singletonVars>>

SpecPath == InitDev /\ [][NextPath]_vars

-----------------------------------------------------------------------------
(* The development server with its clock: the names of the output files *)

\* a second of wall-clock time passes
Tick ==
    /\ now < MaxSeconds
    /\ now' = now + 1
    /\ last' = DevOp("tick", None, NoText, "tick")
    /\ UNCHANGED devVars

NextNames ==
    \/ \E f \in Files : DevUploadFile(f) /\ UNCHANGED <<prodVars, stopVars, execVars, clientVars, clockVars, singletonVars>>
    \/ \E f \in RequestNames, a \in BOOLEAN : DevExecuteJmx(f, a) /\ UNCHANGED <<prodVars, stopVars, execVars, clientVars, clockVars, singletonVars>>
    \/ \E t \in DevIds : BgStart(t) /\ UNCHANGED <<prodVars, stopVars, execVars, clientVars, clockVars, singletonVars>>
    \/ Tick /\ UNCHANGED <<prodVars, stopVars, execVars, clientVars, singletonVars>>

SpecNames == InitDev /\ [][NextNames]_vars

-----------------------------------------------------------------------------
(* upload_and_execute of the development server *)

\* the file names of the uploads
UploadNames == {"a.jmx", "notes.txt"}

\* what the upload step does with a file
UploadOutcome(filename, saved) ==
    IF ~EndsWithJmx(filename) THEN "400"
    ELSE IF ~saved THEN "upload failed"
    ELSE "uploaded"

\* mutant: the execute step runs whatever the upload step returned
UploadAndExecute_IgnoresUpload(filename, saved, jmeter_available, written) ==
    LET stored == IF EndsWithJmx(filename) THEN SafeFilename(filename, now)
                  ELSE filename IN
    \E t \in DevIds :
        /\ tasks_db[t] = NoTask
        /\ jmx_files' = IF UploadOutcome(filename, saved) = "uploaded"
                        THEN jmx_files \cup {stored} ELSE jmx_files
        /\ tasks_db' = [tasks_db EXCEPT ![t] =
              [status |-> PENDING, file_name |-> stored, output_file |-> "jtl",
               message |-> NoText, report_path |-> NoText, completed_at |-> FALSE]]
        /\ bg' = [bg EXCEPT ![t] = "scheduled"]
        /\ last' = DevOp("upload_and_execute", t, stored,
                         IF UploadOutcome(filename, saved) = "uploaded"
                         THEN "success" ELSE UploadOutcome(filename, saved))
        /\ UNCHANGED dev_proc

\* lines 444-469, upload_and_execute, with the two handlers it awaits:
\* upload_file (132-176) raises 400 for a name that does not end in .jmx and
\* answers success=False when saving fails; otherwise the file is stored under
\* its safe name and execute_jmx (338-441) is called with that name. It
\* stores the task (382) and schedules the background run, or, when JMeter is
\* not installed, writes a dummy result log and completes the task; when that
\* write raises, execute_jmx answers success=False (438-441) with no data and
\* the task stays as stored. upload_and_execute answers success=True without
\* looking at the success of the execute answer (457-462).
UploadAndExecute(filename, saved, jmeter_available, written) ==
    IF UploadOutcome(filename, saved) # "uploaded"
    THEN /\ last' = DevOp("upload_and_execute", None, filename,
                          UploadOutcome(filename, saved))
         /\ UNCHANGED devVars
    ELSE LET stored == SafeFilename(filename, now) IN
         \E t \in DevIds :
            /\ tasks_db[t] = NoTask
            /\ jmx_files' = jmx_files \cup {stored}
            /\ IF jmeter_available
               THEN /\ tasks_db' = [tasks_db EXCEPT ![t] = DevTask(stored)]
                    /\ bg' = [bg EXCEPT ![t] = "scheduled"]
                    /\ last' = DevOp("upload_and_execute", t, stored, "success")
               ELSE IF written
               THEN /\ tasks_db' = [tasks_db EXCEPT ![t] =
                           [DevTask(stored) EXCEPT !.status = COMPLETED,
                                                   !.completed_at = TRUE]]
                    /\ bg' = bg
                    /\ last' = DevOp("upload_and_execute", t, stored, "success")
               ELSE /\ tasks_db' = [tasks_db EXCEPT ![t] = DevTask(stored)]
                    /\ bg' = bg
                    /\ last' = DevOp("upload_and_execute", t, stored,
                                     "success, execution null")
            /\ UNCHANGED dev_proc

NextCombined ==
    \/ \E f \in UploadNames, s, a, w \in BOOLEAN :
          UploadAndExecute(f, s, a, w) /\ UNCHANGED <<prodVars, stopVars, execVars, clientVars, clockVars, singletonVars>>
    \/ \E t \in DevIds : BgStart(t) /\ UNCHANGED <<prodVars, stopVars, execVars, clientVars, clockVars, singletonVars>>
    \/ \E t \in DevIds, l \in BOOLEAN : BgLaunch(t, l) /\ UNCHANGED <<prodVars, stopVars, execVars, clientVars, clockVars, singletonVars>>
    \/ Tick /\ UNCHANGED <<prodVars, stopVars, execVars, clientVars, singletonVars>>

SpecCombined == InitDev /\ [][NextCombined]_vars

-----------------------------------------------------------------------------
(* The decorator singleton on TaskManger (core/task.py) *)

SingletonOp(op, arg, out) == [op |-> op, arg |-> arg, out |-> out]

NoSingletonOp == SingletonOp("none", << >>, "none")

\* lines 30-33, TaskManger.__init__: the object made by the id-th run of
\* __init__, bound to the two arguments of that call
Instance(id, jmeter_manager, cache_obj) ==
    [id |-> id, jmeter_manager |-> jmeter_manager, cache |-> cache_obj]

\* mutant: a later construction binds the instance to its own arguments
NewTaskManger_Rebinds(jmeter_manager, cache_obj) ==
    /\ instances' = IF instances = NoInstance
                    THEN Instance(made + 1, jmeter_manager, cache_obj)
                    ELSE Instance(instances.id, jmeter_manager, cache_obj)
    /\ made' = IF instances = NoInstance THEN made + 1 ELSE made
    /\ last' = SingletonOp("TaskManger", <<jmeter_manager, cache_obj>>, instances')
    /\ UNCHANGED cache_objs

\* lines 18-26, TaskManger(jmeter_manager, cache) is wrapper(...): __init__
\* runs when the class is not in `instances` yet; the call returns
\* instances[cls]
NewTaskManger(jmeter_manager, cache_obj) ==
    /\ instances' = IF instances = NoInstance
                    THEN Instance(made + 1, jmeter_manager, cache_obj)
                    ELSE instances
    /\ made' = IF instances = NoInstance THEN made + 1 ELSE made
    /\ last' = SingletonOp("TaskManger", <<jmeter_manager, cache_obj>>, instances')
    /\ UNCHANGED cache_objs

\* cache.py lines 45-46, DictCache.set called on a Cache object by the code
\* that holds it
CacheObjSet(cache_obj, key) ==
    /\ cache_objs' = [cache_objs EXCEPT ![cache_obj] = @ \cup {key}]
    /\ last' = SingletonOp("set", <<cache_obj, key>>, "stored")
    /\ UNCHANGED <<instances, made>>

\* lines 41-42, list_tasks on the instance a construction returned
ManagerListTasks ==
    /\ instances # NoInstance
    /\ last' = SingletonOp("list_tasks", << >>, cache_objs[instances.cache])
    /\ UNCHANGED <<instances, made, cache_objs>>

\* lines 48-77, stop_task_by_file_name on that instance: self.cache.get, the
\* signal, self.cache.remove when the signal was delivered; building the
\* RunCmdResp raises TypeError on each path
ManagerStopTaskByFileName(key, signalled) ==
    /\ instances # NoInstance
    /\ cache_objs' = IF key \in cache_objs[instances.cache] /\ signalled
                     THEN [cache_objs EXCEPT ![instances.cache] = @ \ {key}]
                     ELSE cache_objs
    /\ last' = SingletonOp("stop_task_by_file_name", <<key>>, "raised TypeError")
    /\ UNCHANGED <<instances, made>>

InitSingleton ==
    /\ tasks = [t \in TaskIds |-> NoTask]
    /\ api_pc = [t \in TaskIds |-> "none"]
    /\ jobs = [t \in TaskIds |-> "none"]
    /\ proc = [t \in TaskIds |-> "none"]
    /\ revoked = {}
    /\ cancel_pc = [t \in TaskIds |-> "idle"]
    /\ cancel_ok = {}
    /\ last = NoSingletonOp
    /\ cache = << >>
    /\ os_procs = [p \in Pids |-> NoProc]
    /\ sigterm = {}
    /\ stop_all_pc = Idle
    /\ tasks_db = [t \in DevIds |-> NoTask]
    /\ bg = [t \in DevIds |-> "none"]
    /\ dev_proc = [t \in DevIds |-> "none"]
    /\ jmx_files = {}
    /\ file_records = {}
    /\ jmx_disk = {}
    /\ request = None
    /\ held = NoSnapshot
    /\ now = 0
    /\ instances = NoInstance
    /\ made = 0
    /\ cache_objs = [c \in CacheObjs |-> {}]

notSingletonVars ==
    <<prodVars, stopVars, devVars, execVars, clientVars, clockVars>>

NextSingleton ==
    \/ \E m \in JmeterManagers, c \in CacheObjs : NewTaskManger(m, c) /\ UNCHANGED notSingletonVars
    \/ \E c \in CacheObjs, k \in Keys : CacheObjSet(c, k) /\ UNCHANGED notSingletonVars
    \/ ManagerListTasks /\ UNCHANGED notSingletonVars
    \/ \E k \in Keys, s \in BOOLEAN : ManagerStopTaskByFileName(k, s) /\ UNCHANGED notSingletonVars

SpecSingleton == InitSingleton /\ [][NextSingleton]_vars

-----------------------------------------------------------------------------
(* Progress: either program, with its continuations scheduled fairly *)

\* a deployment runs one of the two programs: the production app with its
\* worker (main.py), or the development server (dev_server.py)
ProdMode == "file" \notin DOMAIN last
DevMode  == "file" \in DOMAIN last

InitLive == Init \/ InitDev

NextLive ==
    \/ ProdMode /\ Next
    \/ DevMode /\ NextDev

\* a step of the production app or its worker
Prod(A) == A /\ UNCHANGED <<stopVars, devVars, execVars, clientVars, clockVars, singletonVars>>

\* a step of the development server
Dev(A) == A /\ UNCHANGED <<prodVars, stopVars, execVars, clientVars, clockVars, singletonVars>>

\* A call that has begun runs to its end, the worker runs a job it has taken
\* from the queue, an awaited coroutine is resumed, and a launched process
\* exits unless a timeout of its waiter fires first.
Fairness ==
    /\ \A t \in TaskIds :
        /\ WF_vars(Prod(ExecuteJmxAsyncEnqueue(t)))
        /\ WF_vars(Prod(ExecuteJmxAsyncReturn(t)))
        /\ WF_vars(Prod(WorkerStart(t)))
        /\ WF_vars(Prod(\E d \in BOOLEAN : WorkerPrepare(t, d)))
        /\ WF_vars(Prod(\E l \in BOOLEAN : WorkerLaunch(t, l)))
        /\ WF_vars(Prod(\/ \E rc \in {0, 1} : ProcessExit(t, rc)
                        \/ WorkerTimeout(t)
                        \/ WorkerSoftTimeLimit(t)))
        /\ WF_vars(Prod(WorkerRecord(t)))
        /\ WF_vars(Prod(\E o \in SyncOutcomes : ExecuteJmxSyncDevFinish(t, o)))
        /\ WF_vars(Prod(CancelTaskCommit(t)))
    /\ \A t \in DevIds :
        /\ WF_vars(Dev(BgStart(t)))
        /\ WF_vars(Dev(\E l \in BOOLEAN : BgLaunch(t, l)))
        /\ WF_vars(Dev(\/ \E rc \in {0, 1} : DevProcessExit(t, rc)
                       \/ BgTimeout(t)))
        /\ WF_vars(Dev(\E d, a \in BOOLEAN : BgRecord(t, d, a)))

SpecLive == InitLive /\ [][NextLive]_vars /\ Fairness

-----------------------------------------------------------------------------
(* Claims on the database-backed manager *)

\* C1: terminal absorption. Once a task's status is Completed, Failed or
\* Cancelled, no step of any operation changes it.
C1_TerminalAbsorption ==
    [][\A t \in TaskIds :
          tasks[t].status \in Terminal => tasks'[t].status = tasks[t].status]_vars

\* C2: race safety. Once cancel_task has returned "cancelled" for a task, no
\* external process is launched for it, and none is left running without a
\* worker job waiting on it.
C2_NoOrphanAfterCancel ==
    /\ [][\A t \in cancel_ok : proc[t] = "none" => proc'[t] = "none"]_vars
    /\ [](\A t \in cancel_ok : proc[t] = "running" => jobs[t] = "waiting")

\* C3: registration before return. From the return of execute_jmx_async on,
\* the task row carries process_id = the id of the enqueued job, and every
\* cancel_task that finds the task Pending or Running after the return issues
\* a revoke for that job.
C3_LinkedBeforeReturn ==
    /\ [](\A t \in TaskIds :
            api_pc[t] = "returned" => tasks[t].process_id = JobId(t))
    /\ [][\A t \in TaskIds :
            (api_pc[t] = "returned" /\ cancel_pc[t] = "idle" /\ cancel_pc'[t] = "checked")
                => (last' = Op("cancel_task", t, "revoke") /\ JobId(t) \in revoked')]_vars

\* C3 witness: a cancel_task issued after the return has just revoked the job
C3_Witness ==
    \E t \in TaskIds :
        /\ api_pc[t] = "returned"
        /\ last = Op("cancel_task", t, "revoke")
        /\ cancel_pc[t] = "checked"
        /\ tasks[t].process_id = JobId(t)

\* C11: a task carries a process_id only while it is Running: none while
\* Pending, and none once Completed, Failed or Cancelled.
C11_LinkedOnlyWhileRunning ==
    \A t \in TaskIds :
        (tasks[t] # NoTask /\ tasks[t].process_id # None) => tasks[t].status = RUNNING

\* C12: a run that is ended by a time limit (the timeout of the wait, or the
\* worker's time limit) leaves the task Failed with the timeout message
\* "Execution timeout".
C12_TimeoutMessage ==
    (/\ last.op \in {"execute_jmeter_task", "execute_jmx_sync_dev"}
     /\ last.out \in {"timeout", "soft time limit"})
        => /\ tasks[last.key].status = FAILED
           /\ tasks[last.key].stderr = "Execution timeout"

\* C13: once a task is recorded Failed for timeout, no external process
\* launched for it is still running.
C13_TimeoutKillsProcess ==
    \A t \in TaskIds :
        (/\ tasks[t] # NoTask
         /\ tasks[t].status = FAILED
         /\ tasks[t].stderr = "Execution timeout") => proc[t] # "running"

\* C15: the production generate-report endpoint starts a report generation
\* only for a task whose status is Completed.
C15_ReportOnlyWhenCompleted ==
    (last.op = "generate_html_report" /\ last.out \in ReportOutcomes)
        => tasks[last.key].status = COMPLETED

\* C17: the status of a task follows Pending, Running, terminal: a task
\* becomes Running only from Pending (it is not created Running, and does not
\* return to Running), and becomes Completed only from Running.
C17_StateMachine ==
    [][\A t \in TaskIds :
          /\ (tasks'[t].status = RUNNING /\ tasks[t].status # RUNNING)
                 => tasks[t].status = PENDING
          /\ (tasks'[t].status = COMPLETED /\ tasks[t].status # COMPLETED)
                 => tasks[t].status = RUNNING]_vars

\* C19: execute_jmx_async for a stored, non-deleted file that is on disk
\* creates a task in Pending for it (and then enqueues the job carrying the
\* task's id).
C19_StoredFileCreatesPendingTask ==
    (/\ last.op = "execute_jmx_async"
     /\ FileRecord(request) \in file_records
     /\ request \in jmx_disk)
        => /\ last.out = "created"
           /\ tasks[last.key].status = PENDING
           /\ tasks[last.key].jmx_file_name = request

\* C20: when the worker records the exit of the external process it writes
\* Completed for return code 0 and Failed otherwise; a task Completed with a
\* recorded return code has return code 0, and a task Failed with a non-zero
\* return code carries the captured stderr.
C20_StatusFollowsExitCode ==
    /\ [][\A t \in TaskIds :
            (jobs[t] = "waiting" /\ proc[t] \in {"exit0", "exit1"} /\ jobs'[t] \in Returned)
                => /\ tasks'[t].status = IF proc[t] = "exit0" THEN COMPLETED ELSE FAILED
                   /\ tasks'[t].return_code = proc[t]]_vars
    /\ [](\A t \in TaskIds :
            (tasks[t] # NoTask /\ tasks[t].return_code # NoText)
                => /\ tasks[t].status = COMPLETED => tasks[t].return_code = "exit0"
                   /\ tasks[t].status = FAILED =>
                         (tasks[t].return_code = "exit1" /\ tasks[t].stderr = "stderr"))

\* C20 witness: a task Failed by a non-zero exit, and the worker job returned
C20_Witness ==
    \E t \in TaskIds :
        /\ tasks[t] # NoTask
        /\ tasks[t].status = FAILED
        /\ tasks[t].return_code = "exit1"
        /\ tasks[t].stderr = "stderr"
        /\ jobs[t] = "ret_failed"

C33_CancelRejected ==
    [][\A t \in TaskIds :
         (/\ last'.op = "cancel_task"
          /\ last'.key = t
          /\ cancel_pc[t] = "idle"
          /\ tasks[t].status \notin {PENDING, RUNNING})
            => /\ last'.out = (IF tasks[t] = NoTask THEN "404" ELSE "400")
               /\ prodVars' = prodVars]_vars

\* C33 witness: the cancel of a Completed task was rejected
C33_Witness ==
    \E t \in TaskIds :
        /\ last = Op("cancel_task", t, "400")
        /\ tasks[t].status = COMPLETED
        /\ t \notin cancel_ok

\* C34: when execute_jmx_sync_dev returns for a task it created, the task is
\* Completed or Failed with completed_at set, on each of its paths; a task
\* whose call has returned is never Running.
C34_SyncNeverReturnsRunning ==
    \A t \in TaskIds :
        /\ (last.op = "execute_jmx_sync_dev" /\ last.key = t /\ last.out \in SyncOutcomes)
              => /\ tasks[t].status \in {COMPLETED, FAILED}
                 /\ tasks[t].status = COMPLETED <=> last.out \in {"dummy", "exit0"}
                 /\ tasks[t].completed_at
        /\ api_pc[t] = "sync_returned"
              => /\ tasks[t].status \in Terminal
                 /\ tasks[t].completed_at

\* C34 witness: the call returned after the timeout of the run
C34_Witness ==
    \E t \in TaskIds :
        /\ last = Op("execute_jmx_sync_dev", t, "timeout")
        /\ api_pc[t] = "sync_returned"
        /\ tasks[t].status = FAILED
        /\ tasks[t].completed_at

\* C21: a task whose external process could not be launched is Failed with
\* a message right after the failed launch, is never Completed, and has no
\* process id recorded.
C21_LaunchFailureRecorded ==
    \A t \in TaskIds :
        (tasks[t] # NoTask /\ tasks[t].stderr = "launch error")
            => /\ tasks[t].status # COMPLETED
               /\ (last = Op("Popen", t, "failed") => tasks[t].status = FAILED)
               /\ tasks[t].process_id = None

\* C23: the worker job ends every run by returning a result, success or
\* failed, also when its task id has no row; and a run that ended in a
\* failure of an existing task has recorded it: the task is Failed with a
\* message.
C23_JobAlwaysReturnsResult ==
    /\ last.op = "execute_jmeter_task"
           => last.out \in {"started", "prepared", "success", "failed",
                            "timeout", "soft time limit"}
    /\ \A t \in TaskIds :
          (/\ last.op \in {"execute_jmeter_task", "Popen"}
           /\ last.key = t
           /\ last.out \in {"failed", "timeout", "soft time limit"})
              => /\ jobs[t] = "ret_failed"
                 /\ tasks[t].status = FAILED
                 /\ tasks[t].stderr # NoText

-----------------------------------------------------------------------------
(* Claims on the cache-backed manager *)

\* C4: stop idempotence. No call of stop_task_by_file_name raises, and a call
\* that repeats the stop of the same key directly after the first returns the
\* not-found outcome, whatever the first call found.
C4_StopIdempotent ==
    /\ last.op = "stop" => "raised" \notin DOMAIN last.out
    /\ (last.op = "stop" /\ last.again) => last.out = Response(0, 1, "", "no found")

\* C5: when the signal cannot be delivered to the cached pid, the stop reports
\* a failure outcome and the entry of the key is removed all the same.
C5_FailedSignalRemovesEntry ==
    (last.op = "stop" /\ last.via \in {"no process", "not permitted"})
        => /\ "returncode" \in DOMAIN last.out
           /\ last.out.returncode # 0
           /\ last.key \notin DOMAIN cache

\* C6: stopping a key whose cached process no longer exists is reported as
\* success, and the entry of the key is removed.
C6_GoneProcessIsSuccess ==
    (last.op = "stop" /\ last.via = "no process")
        => /\ "returncode" \in DOMAIN last.out
           /\ last.out.returncode = 0
           /\ last.key \notin DOMAIN cache

\* C7: a stop for a key with no cache entry returns the not-found outcome
\* (pid 0, returncode 1, "no found"), signals no process and leaves the cache
\* unchanged.
C7_AbsentKeyNotFound ==
    [][\A k \in Keys :
          (k \notin DOMAIN cache /\ last'.op = "stop" /\ last'.key = k)
              => /\ last'.out = Response(0, 1, "", "no found")
                 /\ sigterm' = {}
                 /\ os_procs' = os_procs
                 /\ cache' = cache]_vars

\* C8: a stop for a key whose cached pid can be signalled signals every
\* process of the pid's group, removes the entry of the key, leaves every
\* other entry as it was and reports success.
C8_GroupSignalledEntryRemoved ==
    [][\A k \in Keys :
          (/\ k \in DOMAIN cache
           /\ ~StopTaskByIdRaises(cache[k])
           /\ last'.op = "stop" /\ last'.key = k)
              => /\ \A q \in Signalled(cache[k]) : q \in sigterm' /\ os_procs'[q] = NoProc
                 /\ k \notin DOMAIN cache'
                 /\ \A j \in DOMAIN cache \ {k} : j \in DOMAIN cache' /\ cache'[j] = cache[j]
                 /\ last'.out = Response(cache[k], 0, "success", "")]_vars

\* C9: stop_all ends by returning one outcome for each key of its snapshot; it
\* does not end by raising, and a key that has left the cache since the
\* snapshot contributes the not-found outcome.
C9_StopAllOneOutcomePerKey ==
    [][(stop_all_pc.active /\ ~stop_all_pc'.active)
          => /\ "returned" \in DOMAIN last'.out
             /\ Len(last'.out.returned) = Len(stop_all_pc.keys)
             /\ \A n \in 1..Len(stop_all_pc.keys) :
                   stop_all_pc.keys[n] \notin DOMAIN cache
                       => last'.out.returned[n].returncode # 0]_vars

\* C10: execute_jmx launches the process and inserts the entry of its key, and
\* the entry is removed when the process ends, so that every entry names a
\* live process.
C10_EntryTracksProcess ==
    /\ last.op = "execute_jmx"
           => /\ "returned" \in DOMAIN last.out
              /\ last.key \in DOMAIN cache
    /\ \A k \in DOMAIN cache : os_procs[cache[k]].state # "none"

-----------------------------------------------------------------------------
(* Claims on the development server *)

\* C14: report non-fatality. Once a task is completed, no step, and so no
\* failure of a report generation (non-zero exit, timeout, missing result log,
\* exception), changes its status.
C14_ReportFailureKeepsCompleted ==
    [][\A t \in DevIds :
          tasks_db[t].status = COMPLETED => tasks_db'[t].status = COMPLETED]_vars

\* C14 witness: a report generation has just failed for a completed task
C14_Witness ==
    \E t \in DevIds :
        /\ tasks_db[t].status = COMPLETED
        /\ last.key = t
        /\ last.op \in {"auto_generate_report", "generate_html_report"}
        /\ last.out \in {"failed", "timed out", "error", "no jtl", "404 jtl"}

\* C16: a task with a report_path is completed; report_path changes only in
\* a report generation for that task that succeeded, and a generation that
\* did not succeed leaves it as it was.
C16_ReportPathOnlyOnSuccess ==
    /\ [](\A t \in DevIds :
            (tasks_db[t] # NoTask /\ tasks_db[t].report_path # NoText)
                => tasks_db[t].status = COMPLETED)
    /\ [][\A t \in DevIds :
            (tasks_db[t] # NoTask /\ tasks_db'[t].report_path # tasks_db[t].report_path)
                => /\ last'.op \in {"auto_generate_report", "generate_html_report"}
                   /\ last'.key = t
                   /\ last'.out = "generated"]_vars

\* C16 witness: a task that has a report, for which a later generation failed
C16_Witness ==
    \E t \in DevIds :
        /\ tasks_db[t].status = COMPLETED
        /\ tasks_db[t].report_path = "reports"
        /\ last = DevOp("generate_html_report", t, NoText, "failed")

\* C18: an execute request naming a file that does not exist is answered 404,
\* creates no task, schedules no background run, starts no process and leaves
\* the task store unchanged.
C18_MissingFileRejected ==
    [][\A f \in RequestNames :
          (~JmxPathExists(f) /\ last'.op = "execute_jmx" /\ last'.file = f)
              => /\ last'.out = "404"
                 /\ last'.key = None
                 /\ tasks_db' = tasks_db
                 /\ bg' = bg
                 /\ dev_proc' = dev_proc]_vars

\* C18 witness: a request for a missing file was rejected while the server
\* holds an uploaded file and a task
C18_Witness ==
    /\ last = DevOp("execute_jmx", None, "nonexistent.jmx", "404")
    /\ jmx_files # {}
    /\ \E t \in DevIds : tasks_db[t] # NoTask

\* C24: an execute that succeeds stores its task under an id that no task
\* had before, and leaves every task that existed as it was.
C24_FreshTaskId ==
    [][(last'.op = "execute_jmx" /\ last'.key # None)
          => /\ tasks_db[last'.key] = NoTask
             /\ tasks_db'[last'.key] # NoTask
             /\ \A t \in DevIds \ {last'.key} : tasks_db'[t] = tasks_db[t]]_vars

\* C24 witness: the same file was executed twice and both tasks are there
C24_Witness ==
    \E t, u \in DevIds :
        /\ t # u
        /\ tasks_db[t] # NoTask
        /\ tasks_db[u] # NoTask
        /\ tasks_db[t].file_name = tasks_db[u].file_name
        /\ last.op = "execute_jmx"
        /\ last.key = u

\* C25: no step removes a task: the ids list_tasks returns only grow, a task
\* that get_task_status found is found in the next state too, and a failed
\* one is still returned as failed.
C25_TasksNeverRemoved ==
    [][/\ ListTasks \subseteq ListTasks'
       /\ \A t \in DevIds :
            /\ GetTaskStatus(t) # Raised("404") => GetTaskStatus(t)' # Raised("404")
            /\ (tasks_db[t] # NoTask /\ tasks_db[t].status = FAILED)
                   => /\ GetTaskStatus(t)' # Raised("404")
                      /\ (GetTaskStatus(t)').returned.status = FAILED
                      /\ (GetTaskStatus(t)').returned.message = tasks_db[t].message]_vars

\* C25 witness: a failed task is in the store after a later operation on
\* another task
C25_Witness ==
    \E t \in DevIds :
        /\ t \in ListTasks
        /\ tasks_db[t].status = FAILED
        /\ last.key \in ListTasks \ {t}

\* C26: a task in Pending has no output-file name.
C26_NoOutputWhilePending ==
    \A t \in DevIds :
        (tasks_db[t] # NoTask /\ tasks_db[t].status = PENDING)
            => tasks_db[t].output_file = NoText

\* C35: in every state of the development server a task that is completed or
\* failed has completed_at set, and a task that is pending or running has
\* not; also during automatic report generation and after a timeout or an
\* exception of the background run.
C35_CompletedAtIffTerminal ==
    \A t \in ListTasks :
        tasks_db[t].status \in {COMPLETED, FAILED} <=> tasks_db[t].completed_at

\* C36: a step of the background run of task t (start, launch, exit of its
\* process, recording of the result, timeout, report generation) changes the
\* record, the run position and the process of t only; every other task is
\* left as it was.
C36_TasksRunIndependently ==
    [][\A t \in DevIds :
         (last'.key = t /\ last'.op \in {"execute_jmeter_background", "exit",
                                         "auto_generate_report"})
            => \A u \in DevIds \ {t} :
                  /\ tasks_db'[u] = tasks_db[u]
                  /\ bg'[u] = bg[u]
                  /\ dev_proc'[u] = dev_proc[u]]_vars

\* C36 witness: the result of one task was recorded while another task is
\* still running
C36_Witness ==
    \E t \in DevIds : \E u \in DevIds \ {t} :
        /\ last = DevOp("execute_jmeter_background", t, NoText, FAILED)
        /\ tasks_db[t].status = FAILED
        /\ tasks_db[u] # NoTask
        /\ tasks_db[u].status = RUNNING
        /\ bg[u] = "waiting"

\* C37: two distinct tasks of the development server never have the same
\* output-file name, two executions of the same test plan included.
C37_OutputNamesDistinct ==
    \A t \in ListTasks : \A u \in ListTasks \ {t} :
        tasks_db[t].output_file # tasks_db[u].output_file

\* C38: __init__ of TaskManger runs at most once in a process; every later
\* construction returns the first instance, bound to the jmeter_manager and
\* the cache of the first call whatever its own arguments are, and list_tasks
\* and stop_task_by_file_name read and change that one cache only.
C38_SingleTaskManger ==
    /\ [](made <= 1 /\ (instances = NoInstance <=> made = 0))
    /\ [][/\ (last'.op = "TaskManger" /\ instances # NoInstance)
               => /\ instances' = instances
                  /\ last'.out = instances
                  /\ made' = made
          /\ (last'.op = "TaskManger" /\ instances = NoInstance)
               => /\ instances' = Instance(1, last'.arg[1], last'.arg[2])
                  /\ last'.out = instances'
          /\ last'.op \in {"list_tasks", "stop_task_by_file_name"}
               => /\ instances' = instances
                  /\ \A c \in CacheObjs \ {instances.cache} : cache_objs'[c] = cache_objs[c]
          /\ last'.op = "list_tasks" => last'.out = cache_objs[instances.cache]
          /\ (last'.op = "stop_task_by_file_name" /\ cache_objs' # cache_objs)
               => cache_objs'[instances.cache] = cache_objs[instances.cache] \ {last'.arg[1]}]_vars

\* C38 witness: a second construction with another manager and another cache
\* returned the first instance, whose cache holds a key
C38_Witness ==
    /\ last.op = "TaskManger"
    /\ made = 1
    /\ last.out = instances
    /\ last.arg[1] # instances.jmeter_manager
    /\ last.arg[2] # instances.cache
    /\ cache_objs[instances.cache] # {}

\* C31: upload_and_execute creates no task and changes nothing when the
\* upload step failed; when it reports success, the execute step has created
\* exactly one new task in this call, for the name the upload step stored
\* the file under, and no other task was touched.
C31_ExecuteOnlyAfterUpload ==
    [][last'.op = "upload_and_execute"
         => /\ last'.out \in {"400", "upload failed", "success", "success, execution null"}
            /\ last'.out \in {"400", "upload failed"}
                 => /\ devVars' = devVars
                    /\ last'.key = None
            /\ last'.out \in {"success", "success, execution null"}
                 => /\ last'.key \in DevIds
                    /\ tasks_db[last'.key] = NoTask
                    /\ tasks_db'[last'.key] # NoTask
                    /\ tasks_db'[last'.key].file_name = last'.file
                    /\ last'.file \in jmx_files'
                    /\ EndsWithJmx(last'.file)
                    /\ \A u \in DevIds \ {last'.key} : tasks_db'[u] = tasks_db[u]]_vars

\* C31 witness: a combined call has stored the file under its safe name and
\* created the pending task for that name
C31_Witness ==
    \E t \in DevIds :
        /\ last = DevOp("upload_and_execute", t, "a_1.jmx", "success")
        /\ tasks_db[t].file_name = "a_1.jmx"
        /\ tasks_db[t].status = PENDING
        /\ bg[t] = "scheduled"
        /\ jmx_files = {"a_1.jmx"}

\* C30: no task is created and no process launched for a file name that
\* leads out of the upload directory: such an execute request is refused.
C30_NoEscapingReference ==
    /\ \A t \in DevIds :
          tasks_db[t] # NoTask
              => /\ tasks_db[t].file_name \notin EscapingNames
                 /\ dev_proc[t] = "none" \/ tasks_db[t].file_name \in Files
    /\ (last.op = "execute_jmx" /\ last.file \in EscapingNames)
          => last.key = None

-----------------------------------------------------------------------------
(* Claims on DictCache *)

\* C27: the mapping a caller got from get_all_tasks / list_tasks is a
\* snapshot: whatever is done to the cache afterwards, the caller still reads
\* the content the mapping had when the call returned.
C27_SnapshotIsStable ==
    held # NoSnapshot => Mapping(held) = held.taken

\* C28: last set wins. A set makes its value the entry of its key and leaves
\* every other entry alone, whatever its ttl; a remove takes away the entry of
\* its key only; and no other step, the passing of time included, changes the
\* cache. The entry of a key is thus the value of the latest set of the key
\* that no remove followed.
C28_LastSetWins ==
    [][\A key \in Keys :
         /\ (last'.op = "set" /\ last'.key = key)
              => /\ CacheGet(key)' = last'.value
                 /\ \A k \in Keys \ {key} : CacheGet(k)' = CacheGet(k)
         /\ (last'.op = "remove" /\ last'.key = key)
              => /\ CacheGet(key)' = None
                 /\ \A k \in Keys \ {key} : CacheGet(k)' = CacheGet(k)
         /\ last'.op \notin {"set", "remove"} => cache' = cache]_vars

\* C28 witness: a set with a ttl has put its value in place, next to the
\* entry of another key that holds another value
C28_Witness ==
    /\ last.op = "set"
    /\ last.ttl = 1
    /\ cache[last.key] = last.value
    /\ \E k \in DOMAIN cache \ {last.key} : cache[k] # last.value

\* C29: remove returns true exactly when the key had an entry, and deletes
\* that entry only; a remove of a key without entry returns false and changes
\* nothing; get of a key without entry returns None and changes nothing.
C29_RemoveAndGetOfMissingKey ==
    [][/\ last'.op = "remove"
            => /\ last'.out = (last'.key \in DOMAIN cache)
               /\ last'.key \notin DOMAIN cache'
               /\ \A k \in DOMAIN cache \ {last'.key} :
                     k \in DOMAIN cache' /\ cache'[k] = cache[k]
               /\ last'.key \notin DOMAIN cache => cache' = cache
       /\ last'.op = "get"
            => /\ cache' = cache
               /\ last'.key \notin DOMAIN cache => last'.out = None
               /\ last'.key \in DOMAIN cache => last'.out = cache[last'.key]]_vars

\* C29 witness: the second of two removes of a key returned false, another
\* key keeping its entry
C29_Witness ==
    /\ last.op = "remove"
    /\ last.out = FALSE
    /\ cache # << >>

=============================================================================
